---- MODULE Spec2Model ----
(***************************************************************************)
(* A model of the filesystem protocols and path functions of ccache's      *)
(* Util.cpp: the clone / hard-link / copy installation of a file, the      *)
(* race-tolerant create_dir, the rename-then-unlink unlink_safe, the       *)
(* recursive traverse with its wipe_path visitor, and the lexical path     *)
(* functions behind get_relative_path.                                     *)
(*                                                                         *)
(* Each protocol has its own variables, its own initial condition and its  *)
(* own next-state relation; the variables of the other protocols are       *)
(* parked at a fixed value while one protocol runs.                        *)
(***************************************************************************)
EXTENDS Integers, Sequences, FiniteSets, TLC

VARIABLES
  \* ---- clone_hard_link_or_copy_file ----
  file_clone,    \* ctx.config.file_clone()
  hard_link,     \* ctx.config.hard_link()
  via_tmp_file,  \* the via_tmp_file argument
  names,         \* directory entries: file name -> inode number, 0 when absent
  inodes,        \* inode number -> [data, mode]; an unlinked inode stays readable
  inst,          \* installer process -> its position in the call and its history
  reader,        \* the concurrent reader of dest
  procs,         \* the installer processes that run
  dest0,         \* whether dest existed when the installation started
  \* ---- create_dir ----
  dirs,          \* path -> "none", "dir" or "file"
  cd,            \* creator process -> its argument, call stack and result
  \* ---- unlink_safe ----
  unames,        \* directory entries of the files being removed
  ustale,        \* base name -> whether a stale temporary name existed at first
  ul,            \* unlinking process -> its argument, position and result
  \* ---- traverse, wipe_path ----
  tree,          \* path below the root -> "none", "file" or "dir"
  tphase,        \* "build" while the tree is made, "run" once the walks started
  walkers,       \* the processes that walk the tree
  walk,          \* walker -> its visitor, call stack, visits and outcome
  \* ---- get_relative_path ----
  rp,            \* the arguments dir and path, and what has been computed of them
  \* ---- strip_ansi_csi_seqs ----
  csi,           \* the argument string, pos and result of the loop
  \* ---- read_file ----
  rf,            \* the file, size_hint, the buffer size, pos, ret and result
  \* ---- fallocate ----
  fa,            \* the file's size, the position of fd, and the locals
  \* ---- for_each_level_1_subdir ----
  fe,            \* the loop index and what the two callbacks have received
  \* ---- make_relative_path ----
  mr             \* the directory tree, ctx, the argument path and the locals

instVars == <<file_clone, hard_link, via_tmp_file, names, inodes, inst, reader,
              procs, dest0>>
cdVars == <<dirs, cd>>
ulVars == <<unames, ustale, ul>>
trVars == <<tree, tphase, walkers, walk>>

rpVars == <<rp>>

csiVars == <<csi>>
rfVars == <<rf>>
faVars == <<fa>>
feVars == <<fe>>
mrVars == <<mr>>

vars == <<instVars, cdVars, ulVars, trVars, rpVars, csiVars, rfVars, faVars,
          feVars, mrVars>>

\* The state of the functions modelled in the first sections, and of those
\* modelled in the later ones.
fsVars == <<instVars, cdVars, ulVars, trVars>>
textVars == <<rpVars, csiVars, rfVars, faVars, feVars, mrVars>>

----------------------------------------------------------------------------
(* Bounds *)

\* Number of bytes in the installed file.
DataLen == 2

----------------------------------------------------------------------------
(* clone_hard_link_or_copy_file: Util.cpp 144-172                          *)

\* The mode chmod gives a hard-linked destination (octal 0444).
Mode0444 == 292

\* The mode of a file the process created itself (octal 0644).
ModeRW == 420

SrcData == [i \in 1..DataLen |-> i]
OldData == [i \in 1..(DataLen + 1) |-> 10 + i]

TmpName(p) == IF p = 1 THEN "dest.tmp1" ELSE "dest.tmp2"
FileNames == {"source", "dest", "dest.tmp1", "dest.tmp2"}

NoInst == [pc |-> "idle", attempts |-> <<>>, failed |-> {}, ret |-> "none",
           src_fd |-> 0, dest_fd |-> 0, pos |-> 0, result |-> TRUE,
           chmod_ok |-> FALSE]

\* The file system before the call: source holds SrcData; dest is absent or
\* holds older, different, longer content in an inode of its own.
InitFiles(srcMode, d0) ==
  /\ dest0 = d0
  /\ names = [n \in FileNames |->
                IF n = "source" THEN 1
                ELSE IF n = "dest" /\ d0 = "old" THEN 2 ELSE 0]
  /\ inodes = IF d0 = "old"
              THEN << [data |-> SrcData, mode |-> srcMode],
                      [data |-> OldData, mode |-> ModeRW] >>
              ELSE << [data |-> SrcData, mode |-> srcMode] >>

InitInstall(ps) ==
  /\ procs = ps
  /\ file_clone \in BOOLEAN
  /\ hard_link \in BOOLEAN
  /\ via_tmp_file \in BOOLEAN
  /\ \E srcMode \in {ModeRW, Mode0444}, d0 \in {"absent", "old"} :
       InitFiles(srcMode, d0)
  /\ inst = [p \in ps |-> NoInst]
  /\ reader = [pc |-> "idle", fd |-> 0, data |-> <<>>]

\* What no step of an installation changes: the configuration, and the
\* variables of the other protocols.
instFrame == <<file_clone, hard_link, via_tmp_file, procs, dest0, cdVars, ulVars,
              trVars, textVars>>

\* if (ctx.config.file_clone())
CloneEnabled == file_clone

HardLinkEnabledAlways == TRUE

\* if (ctx.config.hard_link())
HardLinkEnabled == hard_link

\* Where the call goes once cloning is out of the way.
AfterClone == IF HardLinkEnabled THEN "unlink" ELSE "copy"

\* The call is entered.
Call(p) ==
  /\ inst[p].pc = "idle"
  /\ inst' = [inst EXCEPT ![p].pc = IF CloneEnabled THEN "clone" ELSE AfterClone]
  /\ UNCHANGED <<instFrame, names, inodes, reader>>

\* An inode the calling process may open for writing.
Writable(i) == inodes[i].mode # Mode0444

\* write(fd, &b, 1) at offset pos - 1: a gap left by a truncation reads as zeros.
WriteAt(data, pos, b) ==
  IF pos <= Len(data)
  THEN [data EXCEPT ![pos] = b]
  ELSE [i \in 1..pos |-> IF i = pos THEN b ELSE IF i <= Len(data) THEN data[i] ELSE 0]

\* clone_file(source, dest, via_tmp_file): one atomic step that leaves a new
\* inode with the bytes of source at dest, or fails and leaves dest alone.
CloneFile(p) ==
  /\ inst[p].pc = "clone"
  /\ \E ok \in BOOLEAN :
       IF ok /\ names["source"] # 0
       THEN /\ inodes' = Append(inodes, [data |-> inodes[names["source"]].data,
                                         mode |-> ModeRW])
            /\ names' = [names EXCEPT !["dest"] = Len(inodes) + 1]
            /\ inst' = [inst EXCEPT ![p].attempts = Append(@, "clone"),
                                    ![p].pc = "done",
                                    ![p].ret = "true"]
       ELSE /\ inst' = [inst EXCEPT ![p].attempts = Append(@, "clone"),
                                    ![p].failed = @ \cup {"clone"},
                                    ![p].pc = AfterClone]
            /\ UNCHANGED <<names, inodes>>
  /\ UNCHANGED <<instFrame, reader>>

\* unlink(dest.c_str()): the result is ignored.
Unlink(p) ==
  /\ inst[p].pc = "unlink"
  /\ names' = [names EXCEPT !["dest"] = 0]
  /\ inst' = [inst EXCEPT ![p].attempts = Append(@, "link"), ![p].pc = "link"]
  /\ UNCHANGED <<instFrame, inodes, reader>>

\* int ret = link(source, dest): fails when source is missing, when dest exists
\* (EEXIST) or when the file system refuses (EXDEV, EPERM, EMLINK).
LinkResult(ok) ==
  IF ok /\ names["source"] # 0 /\ names["dest"] = 0 THEN 0 ELSE -1

LinkSucceededAlways(ret) == TRUE

\* if (ret == 0)
LinkSucceeded(ret) == ret = 0

Link(p) ==
  /\ inst[p].pc = "link"
  /\ \E ok \in BOOLEAN :
       LET ret == LinkResult(ok) IN
         /\ names' = IF ret = 0
                     THEN [names EXCEPT !["dest"] = names["source"]]
                     ELSE names
         /\ inst' = IF LinkSucceeded(ret)
                    THEN [inst EXCEPT ![p].pc = "chmod"]
                    ELSE [inst EXCEPT ![p].failed = @ \cup {"link"},
                                      ![p].pc = "copy"]
  /\ UNCHANGED <<instFrame, inodes, reader>>

HardLinkModeWritable == ModeRW

\* chmod(dest.c_str(), 0444)
HardLinkMode == Mode0444

\* chmod names dest again: it fails when dest is gone by then (ENOENT) or when
\* the caller does not own the file (EPERM). The failure is logged only.
Chmod(p) ==
  /\ inst[p].pc = "chmod"
  /\ \E ok \in BOOLEAN :
       IF ok /\ names["dest"] # 0
       THEN /\ inodes' = [inodes EXCEPT ![names["dest"]].mode = HardLinkMode]
            /\ inst' = [inst EXCEPT ![p].chmod_ok = TRUE,
                                    ![p].pc = "done",
                                    ![p].ret = "true"]
       ELSE /\ inst' = [inst EXCEPT ![p].pc = "done", ![p].ret = "true"]
            /\ UNCHANGED inodes
  /\ UNCHANGED <<instFrame, names, reader>>

CopyViaTmpNever == FALSE

\* return copy_file(source.c_str(), dest.c_str(), via_tmp_file);
CopyViaTmp == via_tmp_file

CopyFailed(p) ==
  [inst EXCEPT ![p].attempts = Append(@, "copy"),
               ![p].failed = @ \cup {"copy"},
               ![p].pc = "done",
               ![p].ret = "false"]

CopyOpened(p, fd) ==
  [inst EXCEPT ![p].attempts = Append(@, "copy"),
               ![p].src_fd = names["source"],
               ![p].dest_fd = fd,
               ![p].pos = 0,
               ![p].result = TRUE,
               ![p].pc = "copy_fd"]

\* copy_file, opening: source for reading, then the target for writing. The
\* target is a fresh temporary name beside dest, or dest itself, created when
\* missing and truncated when present.
CopyOpen(p) ==
  /\ inst[p].pc = "copy"
  /\ \E ok \in BOOLEAN :
       LET new == Len(inodes) + 1
           empty == [data |-> <<>>, mode |-> ModeRW] IN
       IF ~ok \/ names["source"] = 0
       THEN /\ inst' = CopyFailed(p)
            /\ UNCHANGED <<names, inodes>>
       ELSE IF CopyViaTmp
       THEN /\ inodes' = Append(inodes, empty)
            /\ names' = [names EXCEPT ![TmpName(p)] = new]
            /\ inst' = CopyOpened(p, new)
       ELSE IF names["dest"] = 0
       THEN /\ inodes' = Append(inodes, empty)
            /\ names' = [names EXCEPT !["dest"] = new]
            /\ inst' = CopyOpened(p, new)
       ELSE IF Writable(names["dest"])
       THEN /\ inodes' = [inodes EXCEPT ![names["dest"]].data = <<>>]
            /\ inst' = CopyOpened(p, names["dest"])
            /\ UNCHANGED names
       ELSE /\ inst' = CopyFailed(p)
            /\ UNCHANGED <<names, inodes>>
  /\ UNCHANGED <<instFrame, reader>>

\* copy_file, one round of the read/write loop: the next byte of the open
\* source goes to the open target; end of file or a write error ends the loop.
CopyWrite(p) ==
  /\ inst[p].pc = "copy_fd"
  /\ LET s == inodes[inst[p].src_fd].data
         k == inst[p].pos IN
       IF k < Len(s)
       THEN \E ok \in BOOLEAN :
              IF ok
              THEN /\ inodes' = [inodes EXCEPT ![inst[p].dest_fd].data =
                                                 WriteAt(@, k + 1, s[k + 1])]
                   /\ inst' = [inst EXCEPT ![p].pos = k + 1]
              ELSE /\ inst' = [inst EXCEPT ![p].result = FALSE,
                                           ![p].pc = "copy_end"]
                   /\ UNCHANGED inodes
       ELSE /\ inst' = [inst EXCEPT ![p].pc = "copy_end"]
            /\ UNCHANGED inodes
  /\ UNCHANGED <<instFrame, names, reader>>

\* copy_file, closing: a complete temporary file is renamed over dest.
CopyEnd(p) ==
  /\ inst[p].pc = "copy_end"
  /\ \E ok \in BOOLEAN :
       LET renamed == CopyViaTmp /\ inst[p].result /\ ok
           good == inst[p].result /\ (CopyViaTmp => ok) IN
         /\ names' = IF renamed
                     THEN [names EXCEPT !["dest"] = names[TmpName(p)],
                                        ![TmpName(p)] = 0]
                     ELSE names
         /\ inst' = [inst EXCEPT ![p].pc = "done",
                                 ![p].ret = IF good THEN "true" ELSE "false",
                                 ![p].failed = IF good THEN @ ELSE @ \cup {"copy"}]
  /\ UNCHANGED <<instFrame, inodes, reader>>

\* Another process opens dest for reading.
ReaderOpen ==
  /\ reader.pc = "idle"
  /\ reader' = IF names["dest"] = 0
               THEN [reader EXCEPT !.pc = "enoent"]
               ELSE [reader EXCEPT !.pc = "opened", !.fd = names["dest"]]
  /\ UNCHANGED <<instFrame, names, inodes, inst>>

\* It reads the file it opened to the end.
ReaderRead ==
  /\ reader.pc = "opened"
  /\ reader' = [reader EXCEPT !.pc = "read", !.data = inodes[reader.fd].data]
  /\ UNCHANGED <<instFrame, names, inodes, inst>>

NextInstall ==
  \/ \E p \in procs : Call(p)
  \/ \E p \in procs : CloneFile(p)
  \/ \E p \in procs : Unlink(p)
  \/ \E p \in procs : Link(p)
  \/ \E p \in procs : Chmod(p)
  \/ \E p \in procs : CopyOpen(p)
  \/ \E p \in procs : CopyWrite(p)
  \/ \E p \in procs : CopyEnd(p)
  \/ ReaderOpen
  \/ ReaderRead

----------------------------------------------------------------------------
(* Text: a path is a sequence of one-character strings.                    *)

\* string_view::find_last_of(ch), one-based; 0 for npos.
FindLastOf(str, ch) ==
  LET hits == {i \in 1..Len(str) : str[i] = ch} IN
    IF hits = {} THEN 0 ELSE CHOOSE i \in hits : \A j \in hits : j <= i

\* dir_name: Util.cpp 232-246
dir_name(path) ==
  LET n == FindLastOf(path, "/") IN
    IF n = 0 THEN <<".">>
    ELSE IF n = 1 THEN <<"/">>
    ELSE SubSeq(path, 1, n - 1)

----------------------------------------------------------------------------
(* create_dir: Util.cpp 204-230                                            *)

\* Depth of the directory chain /d/d/.../d.
MaxDepth == 3

\* Number of processes that create the chain.
NumCreators == 2

RECURSIVE ChainPath(_)
ChainPath(k) == IF k = 0 THEN <<>> ELSE ChainPath(k - 1) \o <<"/", "d">>

RootPath == <<"/">>
DirPaths == {RootPath} \cup {ChainPath(k) : k \in 1..MaxDepth}
Creators == 1..NumCreators

\* The chain exists down to depth e; the next component may be a regular file.
StartCreateDir ==
  /\ \E e \in 0..MaxDepth, blocked \in BOOLEAN :
       dirs = [q \in DirPaths |->
                 IF q = RootPath \/ Len(q) <= 2 * e THEN "dir"
                 ELSE IF blocked /\ Len(q) = 2 * e + 2 THEN "file"
                 ELSE "none"]
  /\ cd \in [Creators -> {[arg |-> ChainPath(k), stack |-> <<>>, retval |-> "none",
                           ret |-> "none", raced |-> FALSE] : k \in 1..MaxDepth}]

cdFrame == <<instVars, ulVars, trVars, textVars>>

Top(p) == cd[p].stack[Len(cd[p].stack)]
Pop(stack) == SubSeq(stack, 1, Len(stack) - 1)
SetTop(stack, pc) == [stack EXCEPT ![Len(stack)].pc = pc]

\* "return v": the frame is left; the outermost frame's value is the result.
Return(p, v) ==
  LET rest == Pop(cd[p].stack)
      val == IF v THEN "true" ELSE "false" IN
    [cd EXCEPT ![p].stack = rest,
               ![p].retval = val,
               ![p].ret = IF rest = <<>> THEN val ELSE @]

\* A process calls create_dir(arg).
CreateDirCall(p) ==
  /\ cd[p].ret = "none"
  /\ cd[p].stack = <<>>
  /\ cd' = [cd EXCEPT ![p].stack = <<[dir |-> cd[p].arg, pc |-> "stat"]>>]
  /\ UNCHANGED <<dirs, cdFrame>>

\* auto st = Stat::stat(dir_str) and the branches on it, up to the recursive
\* call on the parent.
CreateDirStat(p) ==
  /\ cd[p].stack # <<>>
  /\ Top(p).pc = "stat"
  /\ LET dir == Top(p).dir IN
       cd' = IF dirs[dir] = "dir" THEN Return(p, TRUE)
             ELSE IF dirs[dir] # "none" THEN Return(p, FALSE)
             ELSE [cd EXCEPT ![p].stack =
                     Append(SetTop(@, "recursed"),
                            [dir |-> dir_name(dir), pc |-> "stat"])]
  /\ UNCHANGED <<dirs, cdFrame>>

\* if (!create_dir(Util::dir_name(dir))) return false;
CreateDirRecursed(p) ==
  /\ cd[p].stack # <<>>
  /\ Top(p).pc = "recursed"
  /\ cd' = IF cd[p].retval = "true"
           THEN [cd EXCEPT ![p].stack = SetTop(@, "mkdir")]
           ELSE Return(p, FALSE)
  /\ UNCHANGED <<dirs, cdFrame>>

\* mkdir(dir_str.c_str(), 0777): the errno, "" on success.
MkdirErrno(dir) ==
  IF dirs[dir] # "none" THEN "EEXIST"
  ELSE IF dirs[dir_name(dir)] = "none" THEN "ENOENT"
  ELSE IF dirs[dir_name(dir)] # "dir" THEN "ENOTDIR"
  ELSE ""

MkdirOkStrict(errno) == errno = ""

\* return result == 0 || errno == EEXIST;
MkdirOk(errno) == errno = "" \/ errno = "EEXIST"

CreateDirMkdir(p) ==
  /\ cd[p].stack # <<>>
  /\ Top(p).pc = "mkdir"
  /\ LET dir == Top(p).dir
         errno == MkdirErrno(dir) IN
       /\ dirs' = IF errno = "" THEN [dirs EXCEPT ![dir] = "dir"] ELSE dirs
       /\ cd' = [Return(p, MkdirOk(errno)) EXCEPT
                   ![p].raced = @ \/ errno = "EEXIST"]
  /\ UNCHANGED cdFrame

NextCreateDir ==
  \/ \E p \in Creators : CreateDirCall(p)
  \/ \E p \in Creators : CreateDirStat(p)
  \/ \E p \in Creators : CreateDirRecursed(p)
  \/ \E p \in Creators : CreateDirMkdir(p)

----------------------------------------------------------------------------
(* unlink_safe: Util.cpp 960-991                                           *)

\* Number of processes that remove files.
NumUnlinkers == 2

Unlinkers == 1..NumUnlinkers
UBase == {"x", "y"}
UNames == UBase \X {"", ".ccache.rm.tmp"}

\* std::string tmp_name = path + ".ccache.rm.tmp";
tmp_name(path) == <<path[1], path[2] \o ".ccache.rm.tmp">>

\* Each file exists freshly created or not at all; a temporary name may be
\* left over from an earlier, interrupted removal.
StartUnlink ==
  /\ ustale \in [UBase -> BOOLEAN]
  /\ \E fresh \in SUBSET UBase :
       unames = [n \in UNames |->
                   IF n[2] = "" THEN (IF n[1] \in fresh THEN "fresh" ELSE "none")
                   ELSE (IF ustale[n[1]] THEN "stale" ELSE "none")]
  /\ ul \in [Unlinkers -> {[path |-> <<b, "">>, pc |-> "idle", success |-> TRUE,
                            saved_errno |-> "", ret |-> "none"] : b \in UBase}]

ulFrame == <<instVars, cdVars, trVars, textVars, ustale>>

\* A process calls unlink_safe(path).
UnlinkSafeCall(p) ==
  /\ ul[p].pc = "idle"
  /\ ul' = [ul EXCEPT ![p].pc = "rename"]
  /\ UNCHANGED <<unames, ulFrame>>

\* x_rename(path, tmp_name): the errno, "" on success. A rename replaces an
\* existing target in one step.
RenameErrnos(path) ==
  IF unames[path] = "none" THEN {"ENOENT"} ELSE {"", "EACCES"}

\* if (x_rename(path.c_str(), tmp_name.c_str()) != 0)
UnlinkSafeRename(p) ==
  /\ ul[p].pc = "rename"
  /\ \E errno \in RenameErrnos(ul[p].path) :
       IF errno # ""
       THEN /\ ul' = [ul EXCEPT ![p].success = FALSE,
                                ![p].saved_errno = errno,
                                ![p].pc = "log"]
            /\ UNCHANGED unames
       ELSE /\ unames' = [unames EXCEPT ![tmp_name(ul[p].path)] = unames[ul[p].path],
                                        ![ul[p].path] = "none"]
            /\ ul' = [ul EXCEPT ![p].pc = "unlink"]
  /\ UNCHANGED ulFrame

\* unlink(tmp_name): the errno, "" on success.
UnlinkErrnos(name) ==
  IF unames[name] = "none" THEN {"ENOENT", "ESTALE"} ELSE {"", "EACCES"}

UnlinkToleratedAll(errno) == TRUE

\* if (errno != ENOENT && errno != ESTALE)
UnlinkTolerated(errno) == errno \in {"ENOENT", "ESTALE"}

\* else if (unlink(tmp_name.c_str()) != 0)
UnlinkSafeUnlink(p) ==
  /\ ul[p].pc = "unlink"
  /\ \E errno \in UnlinkErrnos(tmp_name(ul[p].path)) :
       /\ unames' = IF errno = ""
                    THEN [unames EXCEPT ![tmp_name(ul[p].path)] = "none"]
                    ELSE unames
       /\ ul' = IF errno # "" /\ ~UnlinkTolerated(errno)
                THEN [ul EXCEPT ![p].success = FALSE,
                                ![p].saved_errno = errno,
                                ![p].pc = "log"]
                ELSE [ul EXCEPT ![p].pc = "log"]
  /\ UNCHANGED ulFrame

\* The log lines, errno = saved_errno, return success.
UnlinkSafeReturn(p) ==
  /\ ul[p].pc = "log"
  /\ ul' = [ul EXCEPT ![p].pc = "done",
                      ![p].ret = IF ul[p].success THEN "true" ELSE "false"]
  /\ UNCHANGED <<unames, ulFrame>>

NextUnlink ==
  \/ \E p \in Unlinkers : UnlinkSafeCall(p)
  \/ \E p \in Unlinkers : UnlinkSafeRename(p)
  \/ \E p \in Unlinkers : UnlinkSafeUnlink(p)
  \/ \E p \in Unlinkers : UnlinkSafeReturn(p)

----------------------------------------------------------------------------
(* traverse: Util.cpp 913-958, wipe_path: Util.cpp 1011-1026               *)

\* Levels of entries below the root.
MaxTreeDepth == 2

\* Number of entries below the root.
MaxEntries == 4

TreeNames == {"a", "b"}

RECURSIVE PathsOfLen(_)
PathsOfLen(k) ==
  IF k = 0 THEN {<<>>}
  ELSE {Append(q, n) : q \in PathsOfLen(k - 1), n \in TreeNames}

\* A path is the sequence of entry names that leads to it from the root, which
\* is the empty sequence: path + "/" + entry->d_name appends one name.
TreePaths == UNION {PathsOfLen(k) : k \in 0..MaxTreeDepth}

TreeRoot == <<>>
Parent(q) == SubSeq(q, 1, Len(q) - 1)
Children(q) == {c \in TreePaths : Len(c) = Len(q) + 1 /\ Parent(c) = q}
Entries == {q \in TreePaths : q # TreeRoot /\ tree[q] # "none"}

\* thrown holds the path named in the Error a walk ended with, if any.
NoWalk(mode) ==
  [mode |-> mode, pc |-> "idle", stack |-> <<>>, visits |-> <<>>, thrown |-> <<>>]

\* throw Error(...) about path q: the exception leaves every call of traverse.
Throw(w, q) ==
  [walk EXCEPT ![w].pc = "error", ![w].stack = <<>>, ![w].thrown = <<q>>]

\* The root exists, as a directory or as a file; it has no entries yet.
StartTree(ws, modes) ==
  /\ walkers = ws
  /\ tphase = "build"
  /\ \E k \in {"dir", "file"} :
       tree = [q \in TreePaths |-> IF q = TreeRoot THEN k ELSE "none"]
  /\ walk \in {f \in [ws -> {NoWalk(m) : m \in {"traverse", "wipe_path"}}] :
                 \A w \in ws : f[w].mode \in modes[w]}

trFrame == <<instVars, cdVars, ulVars, textVars, walkers>>

\* Before the walks: a file or a directory is created in a directory.
AddEntry ==
  /\ tphase = "build"
  /\ Cardinality(Entries) < MaxEntries
  /\ \E q \in TreePaths \ {TreeRoot}, k \in {"file", "dir"} :
       /\ tree[q] = "none"
       /\ tree[Parent(q)] = "dir"
       /\ tree' = [tree EXCEPT ![q] = k]
  /\ UNCHANGED <<tphase, walk, trFrame>>

\* The tree is complete; from now on only the walkers touch it.
StartWalks ==
  /\ tphase = "build"
  /\ tphase' = "run"
  /\ UNCHANGED <<tree, walk, trFrame>>

Frame(path) == [path |-> path, pc |-> "opendir", pending |-> {}]

\* traverse(path, visitor) is called; wipe_path returns at once when
\* Stat::lstat(path) finds nothing.
WalkCall(w) ==
  /\ tphase = "run"
  /\ walk[w].pc = "idle"
  /\ walk' = IF walk[w].mode = "wipe_path" /\ tree[TreeRoot] = "none"
             THEN [walk EXCEPT ![w].pc = "done"]
             ELSE [walk EXCEPT ![w].pc = "run", ![w].stack = <<Frame(TreeRoot)>>]
  /\ UNCHANGED <<tree, tphase, trFrame>>

\* rmdir(p): the errno, "" on success.
RmdirErrno(q) ==
  IF tree[q] = "none" THEN "ENOENT"
  ELSE IF tree[q] # "dir" THEN "ENOTDIR"
  ELSE IF \E c \in Children(q) : tree[c] # "none" THEN "ENOTEMPTY"
  ELSE ""

\* unlink(p): the errno, "" on success.
UnlinkErrno(q) ==
  IF tree[q] = "none" THEN "ENOENT"
  ELSE IF tree[q] = "dir" THEN "EISDIR"
  ELSE ""

\* The visitor of wipe_path: errno != ENOENT && errno != ESTALE throws.
WipeErrno(q, is_dir) == IF is_dir THEN RmdirErrno(q) ELSE UnlinkErrno(q)

\* visitor(path, is_dir): the tree it leaves, the walker's visits, and whether
\* it threw.
Visit(w, q, is_dir) ==
  IF walk[w].mode = "traverse"
  THEN [tree |-> tree, visits |-> Append(walk[w].visits, <<q, is_dir>>),
        threw |-> FALSE]
  ELSE [tree |-> IF WipeErrno(q, is_dir) = "" THEN [tree EXCEPT ![q] = "none"]
                 ELSE tree,
        visits |-> walk[w].visits,
        threw |-> WipeErrno(q, is_dir) \notin {"", "ENOENT", "ESTALE"}]

WTop(w) == walk[w].stack[Len(walk[w].stack)]

\* The walker after a visit that ends the current call of traverse.
AfterLastVisit(w, q, v) ==
  IF v.threw
  THEN Throw(w, q)
  ELSE [walk EXCEPT ![w].stack = Pop(@),
                    ![w].visits = v.visits,
                    ![w].pc = IF Len(walk[w].stack) = 1 THEN "done" ELSE @]

\* DIR* dir = opendir(path.c_str()) and the two branches for its failure.
Opendir(w) ==
  /\ walk[w].pc = "run"
  /\ WTop(w).pc = "opendir"
  /\ LET q == WTop(w).path IN
       IF tree[q] = "dir"
       THEN /\ walk' = [walk EXCEPT ![w].stack[Len(walk[w].stack)] =
                          [path |-> q, pc |-> "readdir",
                           pending |-> {[name |-> c[Len(c)], d_type |-> tree[c]] :
                                          c \in {x \in Children(q) : tree[x] # "none"}}]]
            /\ UNCHANGED tree
       ELSE IF tree[q] = "file"
       THEN LET v == Visit(w, q, FALSE) IN
              /\ tree' = v.tree
              /\ walk' = AfterLastVisit(w, q, v)
       ELSE /\ walk' = Throw(w, q)
            /\ UNCHANGED tree
  /\ UNCHANGED <<tphase, trFrame>>

IsDirNever(d_type) == FALSE

\* is_dir = entry->d_type == DT_DIR;
IsDir(d_type) == d_type = "dir"

\* One round of the readdir loop: the next entry of the open directory, its
\* kind from d_type or from lstat, and the recursive call or the visit; at the
\* end of the directory closedir and the visit of the directory itself. The
\* entries are those that existed at opendir: one removed since then may still
\* be returned, or not.
Readdir(w) ==
  /\ walk[w].pc = "run"
  /\ WTop(w).pc = "readdir"
  /\ LET q == WTop(w).path
         top == Len(walk[w].stack) IN
       IF WTop(w).pending = {}
       THEN LET v == Visit(w, q, TRUE) IN
              /\ tree' = v.tree
              /\ walk' = AfterLastVisit(w, q, v)
       ELSE \E e \in WTop(w).pending, known \in BOOLEAN, returned \in BOOLEAN :
              LET entry_path == Append(q, e.name)
                  rest == [walk EXCEPT ![w].stack[top].pending = @ \ {e}]
                  gone == tree[entry_path] = "none"
                  is_dir == IF known THEN IsDir(e.d_type)
                            ELSE tree[entry_path] = "dir" IN
                IF (gone /\ ~returned) \/ (gone /\ ~known)
                THEN /\ walk' = rest
                     /\ UNCHANGED tree
                ELSE IF is_dir
                THEN /\ walk' = [rest EXCEPT ![w].stack = Append(@, Frame(entry_path))]
                     /\ UNCHANGED tree
                ELSE LET v == Visit(w, entry_path, FALSE) IN
                       /\ tree' = v.tree
                       /\ walk' = IF v.threw
                                  THEN Throw(w, entry_path)
                                  ELSE [rest EXCEPT ![w].visits = v.visits]
  /\ UNCHANGED <<tphase, trFrame>>

NextTraverse ==
  \/ AddEntry
  \/ StartWalks
  \/ \E w \in walkers : WalkCall(w)
  \/ \E w \in walkers : Opendir(w)
  \/ \E w \in walkers : Readdir(w)

----------------------------------------------------------------------------
(* common_dir_prefix_length, get_relative_path, normalize_absolute_path    *)

\* Longest dir argument, in characters.
MaxDirLen == 4

\* Longest text that path adds after dir, in characters.
MaxSuffixLen == 3

Chars == {"/", ".", "a", "b"}

Min(a, b) == IF a <= b THEN a ELSE b

\* str[i] with the zero-based index of the source.
At(str, i) == str[i + 1]

\* str.find(ch, from): a zero-based index, -1 for npos.
Find(str, ch, from) ==
  LET hits == {i \in from..(Len(str) - 1) : At(str, i) = ch} IN
    IF hits = {} THEN -1 ELSE CHOOSE i \in hits : \A j \in hits : i <= j

\* str.rfind(ch, pos): the last occurrence at or before pos, -1 for npos.
RFind(str, ch, pos) ==
  LET hits == {i \in 0..Min(pos, Len(str) - 1) : At(str, i) = ch} IN
    IF hits = {} THEN -1 ELSE CHOOSE i \in hits : \A j \in hits : j <= i

\* str.find_last_not_of(ch): -1 for npos.
FindLastNotOf(str, ch) ==
  LET hits == {i \in 0..(Len(str) - 1) : At(str, i) # ch} IN
    IF hits = {} THEN -1 ELSE CHOOSE i \in hits : \A j \in hits : j <= i

\* str.erase(pos): the first pos characters stay.
Erase(str, pos) == SubSeq(str, 1, pos)

\* is_absolute_path: Util.cpp 496-506, without _WIN32
is_absolute_path(path) == path # <<>> /\ path[1] = "/"

\* while (i < limit && dir[i] == path[i]) ++i;
RECURSIVE MatchLength(_, _, _, _)
MatchLength(dir, path, i, limit) ==
  IF i < limit /\ At(dir, i) = At(path, i)
  THEN MatchLength(dir, path, i + 1, limit)
  ELSE i

\* do { --i; } while (i > 0 && dir[i] != '/' && path[i] != '/');
RECURSIVE BackToSlash(_, _, _)
BackToSlash(dir, path, i) ==
  LET j == i - 1 IN
    IF j > 0 /\ At(dir, j) # "/" /\ At(path, j) # "/"
    THEN BackToSlash(dir, path, j)
    ELSE j

\* common_dir_prefix_length: Util.cpp 174-202
common_dir_prefix_length(dir, path) ==
  IF dir = <<>> \/ path = <<>> \/ dir = <<"/">> \/ path = <<"/">>
  THEN 0
  ELSE LET limit == Min(Len(dir), Len(path))
           i == MatchLength(dir, path, 0, limit) IN
         IF \/ (i = Len(dir) /\ i = Len(path))
            \/ (i = Len(dir) /\ At(path, i) = "/")
            \/ (i = Len(path) /\ At(dir, i) = "/")
         THEN i
         ELSE BackToSlash(dir, path, i)

\* The while (true) loop of normalize_absolute_path: Util.cpp 620-645
RECURSIVE NormalizeLoop(_, _, _)
NormalizeLoop(path, result, left) ==
  IF left >= Len(path) THEN result
  ELSE
    LET right == Find(path, "/", left)
        part == IF right = -1 THEN SubSeq(path, left + 1, Len(path))
                ELSE SubSeq(path, left + 1, right)
        appended == result \o part
        next == IF part = <<".", ".">>
                THEN (IF Len(result) > 1
                      THEN Erase(result, RFind(result, "/", Len(result) - 2) + 1)
                      ELSE result)
                ELSE IF part = <<".">> THEN result
                ELSE IF appended[Len(appended)] # "/" THEN Append(appended, "/")
                ELSE appended IN
      IF right = -1 THEN next ELSE NormalizeLoop(path, next, right + 1)

\* normalize_absolute_path: Util.cpp 598-655, without _WIN32
normalize_absolute_path(path) ==
  IF ~is_absolute_path(path) THEN path
  ELSE LET result == NormalizeLoop(path, <<"/">>, 1) IN
         IF Len(result) > 1
         THEN Erase(result, FindLastNotOf(result, "/") + 1)
         ELSE result

\* for (size_t i = common_prefix_len; i < dir.length(); ++i): Util.cpp 450-457
RECURSIVE DotDots(_, _, _)
DotDots(dir, i, result) ==
  IF i >= Len(dir) THEN result
  ELSE DotDots(dir, i + 1,
               IF At(dir, i) = "/"
               THEN (IF result # <<>> THEN Append(result, "/") ELSE result)
                    \o <<".", ".">>
               ELSE result)

\* get_relative_path: Util.cpp 425-467, without _WIN32
get_relative_path(dir, path) ==
  LET common_prefix_len == common_dir_prefix_length(dir, path)
      ups == IF common_prefix_len > 0 \/ dir # <<"/">>
             THEN DotDots(dir, common_prefix_len, <<>>)
             ELSE <<>>
      whole == IF Len(path) > common_prefix_len
               THEN (IF ups # <<>> THEN Append(ups, "/") ELSE ups)
                    \o SubSeq(path, common_prefix_len + 2, Len(path))
               ELSE ups
      result == Erase(whole, FindLastNotOf(whole, "/") + 1) IN
    IF result = <<>> THEN <<".">> ELSE result

RECURSIVE Strings(_)
Strings(n) ==
  IF n = 0 THEN {<<>>}
  ELSE Strings(n - 1) \cup {Append(str, c) : str \in Strings(n - 1), c \in Chars}

\* dir is any absolute path, path any text that starts with dir.
StartRelPath ==
  \E d \in {str \in Strings(MaxDirLen) : is_absolute_path(str)},
     suffix \in Strings(MaxSuffixLen) :
    rp = [pc |-> "start", dir |-> d, path |-> d \o suffix, relative |-> <<>>,
          joined |-> <<>>, normalized |-> <<>>]

rpFrame == <<fsVars, csiVars, rfVars, faVars, feVars, mrVars>>

\* get_relative_path(dir, path) is called; its assertions hold.
GetRelativePath ==
  /\ rp.pc = "start"
  /\ is_absolute_path(rp.dir) /\ is_absolute_path(rp.path)
  /\ rp' = [rp EXCEPT !.pc = "relative",
                      !.relative = get_relative_path(rp.dir, rp.path)]
  /\ UNCHANGED rpFrame

\* The lexical join of dir and the relative path, and path, are normalized.
NormalizeBoth ==
  /\ rp.pc = "relative"
  /\ rp' = [rp EXCEPT
              !.pc = "done",
              !.joined = normalize_absolute_path(rp.dir \o <<"/">> \o rp.relative),
              !.normalized = normalize_absolute_path(rp.path)]
  /\ UNCHANGED rpFrame

NextRelPath == GetRelativePath \/ NormalizeBoth

----------------------------------------------------------------------------
(* find_first_ansi_csi_seq: Util.cpp 54-79, strip_ansi_csi_seqs: 873-893   *)

\* Longest argument string, in bytes.
MaxStringLen == 5

\* One byte of each kind the search tells apart: ESC, '[', the parameter byte
\* '0', the intermediate byte ' ', the final bytes 'K' and 'm', and 'x'.
Bytes == {27, 91, 48, 32, 75, 109, 120}

RECURSIVE ByteStrings(_)
ByteStrings(n) ==
  IF n = 0 THEN {<<>>}
  ELSE ByteStrings(n - 1)
         \cup {Append(str, b) : str \in ByteStrings(n - 1), b \in Bytes}

\* while (pos < string.length() && string[pos] != 0x1b) ++pos;
RECURSIVE SkipToEsc(_, _)
SkipToEsc(string, pos) ==
  IF pos < Len(string) /\ At(string, pos) # 27
  THEN SkipToEsc(string, pos + 1)
  ELSE pos

\* while (pos < string.length() && (string[pos] >= lo && string[pos] <= hi))
\*   ++pos;
RECURSIVE SkipRange(_, _, _, _)
SkipRange(string, pos, lo, hi) ==
  IF pos < Len(string) /\ At(string, pos) >= lo /\ At(string, pos) <= hi
  THEN SkipRange(string, pos + 1, lo, hi)
  ELSE pos

\* The empty string_view, return {}.
NoSeq == [start |-> 0, length |-> 0]

\* find_first_ansi_csi_seq: the span found, as its offset in string and its
\* length.
find_first_ansi_csi_seq(string) ==
  LET start == SkipToEsc(string, 0) IN
    IF start + 1 >= Len(string) \/ At(string, start + 1) # 91
    THEN NoSeq
    ELSE LET pos == SkipRange(string, SkipRange(string, start + 2, 48, 63),
                              32, 47) IN
           IF pos < Len(string) /\ (At(string, pos) = 75 \/ At(string, pos) = 109)
           THEN [start |-> start, length |-> pos + 1 - start]
           ELSE NoSeq

StartStrip ==
  \E str \in ByteStrings(MaxStringLen) :
    csi = [pc |-> "idle", string |-> str, pos |-> 0, result |-> <<>>]

csiFrame == <<fsVars, rpVars, rfVars, faVars, feVars, mrVars>>

\* strip_ansi_csi_seqs(string) is called: size_t pos = 0; std::string result;
StripCall ==
  /\ csi.pc = "idle"
  /\ csi' = [csi EXCEPT !.pc = "loop"]
  /\ UNCHANGED csiFrame

\* One round of the while (true) loop.
StripRound ==
  /\ csi.pc = "loop"
  /\ LET seq_span == find_first_ansi_csi_seq(
                       SubSeq(csi.string, csi.pos + 1, Len(csi.string)))
         data_length == IF seq_span.length = 0
                        THEN Len(csi.string) - csi.pos
                        ELSE seq_span.start
         appended == csi.result
                       \o SubSeq(csi.string, csi.pos + 1, csi.pos + data_length) IN
       csi' = IF seq_span.length = 0
              THEN [csi EXCEPT !.result = appended, !.pc = "done"]
              ELSE [csi EXCEPT !.result = appended,
                               !.pos = csi.pos + data_length + seq_span.length]
  /\ UNCHANGED csiFrame

NextStrip == StripCall \/ StripRound

----------------------------------------------------------------------------
(* read_file: Util.cpp 714-763                                             *)

\* Number of times read may fail with EINTR in one call of read_file.
MaxEintr == 2

\* File sizes and size hints around the smallest buffer and its double.
FileSizes == {0, 1, 1023, 1024, 1025, 2048, 2049}
SizeHints == {0, 1, 1023, 1024, 1025, 2047, 4096}

\* The file holds a different byte at every offset.
FileContent(n) == [i \in 1..n |-> i]

\* size_hint = (size_hint < 1024) ? 1024 : size_hint + 1;
BufferSize(size_hint) == IF size_hint < 1024 THEN 1024 ELSE size_hint + 1

StartReadFile ==
  \E n \in FileSizes, hint \in SizeHints, there \in BOOLEAN :
    rf = [pc |-> "idle", exists |-> there, content |-> FileContent(n),
          size_hint |-> hint, size |-> 0, pos |-> 0, ret |-> 0, errno |-> "",
          result |-> <<>>, eintr |-> 0, out |-> <<>>]

rfFrame == <<fsVars, rpVars, csiVars, faVars, feVars, mrVars>>

\* read_file(path, size_hint) up to the loop: the stat for a zero hint, the
\* open, and result.resize(size_hint).
ReadFileCall ==
  /\ rf.pc = "idle"
  /\ rf' = IF ~rf.exists
           THEN [rf EXCEPT !.pc = "error", !.errno = "ENOENT"]
           ELSE [rf EXCEPT !.pc = "loop",
                           !.size = BufferSize(IF rf.size_hint = 0
                                               THEN Len(rf.content)
                                               ELSE rf.size_hint)]
  /\ UNCHANGED rfFrame

\* read(*fd, data + pos, max_read) on a regular file: the bytes from the file
\* offset on, as many as are left and fit, or -1 with EINTR or EIO and nothing
\* read.
ReadResults(max_read) ==
  {[ret |-> Min(max_read, Len(rf.content) - rf.pos), errno |-> ""],
   [ret |-> -1, errno |-> "EIO"]}
    \cup (IF rf.eintr < MaxEintr THEN {[ret |-> -1, errno |-> "EINTR"]} ELSE {})

\* One round of the while (true) loop.
ReadFileRead ==
  /\ rf.pc = "loop"
  /\ LET size == IF rf.pos > rf.size THEN 2 * rf.size ELSE rf.size
         max_read == size - rf.pos IN
       \E r \in ReadResults(max_read) :
         LET got == SubSeq(rf.content, rf.pos + 1, rf.pos + r.ret)
             stop == \/ r.ret = 0
                     \/ (r.ret = -1 /\ r.errno # "EINTR")
                     \/ (r.ret > 0 /\ r.ret < max_read) IN
           rf' = [rf EXCEPT
                    !.size = size,
                    !.ret = r.ret,
                    !.errno = r.errno,
                    !.eintr = IF r.errno = "EINTR" THEN @ + 1 ELSE @,
                    !.pos = IF r.ret > 0 THEN @ + r.ret ELSE @,
                    !.result = IF r.ret > 0 THEN @ \o got ELSE @,
                    !.pc = IF stop THEN "after" ELSE "loop"]
  /\ UNCHANGED rfFrame

\* After the loop: throw Error for ret == -1, else result.resize(pos) and
\* return result.
ReadFileReturn ==
  /\ rf.pc = "after"
  /\ rf' = IF rf.ret = -1
           THEN [rf EXCEPT !.pc = "error"]
           ELSE [rf EXCEPT !.pc = "done",
                           !.out = SubSeq(rf.result, 1, rf.pos)]
  /\ UNCHANGED rfFrame

NextReadFile == ReadFileCall \/ ReadFileRead \/ ReadFileReturn

----------------------------------------------------------------------------
(* fallocate: Util.cpp 254-284                                             *)

\* Largest file size and largest new_size, in bytes.
MaxFileSize == 3

\* The file behind fd has a size and fd a position, which may lie beyond the
\* end; fd may also be a pipe, on which lseek fails. have_posix_fallocate tells
\* which branch of the #ifdef was built.
StartFallocate ==
  \E posix \in BOOLEAN, seekable \in BOOLEAN, size \in 0..MaxFileSize,
     position \in 0..(MaxFileSize + 1), n \in 0..(MaxFileSize + 1) :
    fa = [pc |-> "idle", have_posix_fallocate |-> posix, seekable |-> seekable,
          size |-> size, pos |-> position, size0 |-> size, pos0 |-> position,
          new_size |-> n, saved_pos |-> 0, old_size |-> 0,
          bytes_to_write |-> 0, err |-> "", ret |-> "none"]

faFrame == <<fsVars, rpVars, csiVars, rfVars, feVars, mrVars>>

\* lseek(fd, 0, SEEK_END): the new position, -1 on a pipe.
SeekEnd == IF fa.seekable THEN fa.size ELSE -1

\* lseek(fd, offset, SEEK_SET): the position of fd after it; the call fails
\* and changes nothing on a pipe or for a negative offset.
SeekSet(offset) == IF fa.seekable /\ offset >= 0 THEN offset ELSE fa.pos

\* fallocate(fd, new_size) is called. With posix_fallocate the file is
\* extended, or not for want of space, and the position is not touched;
\* without it: off_t saved_pos = lseek(fd, 0, SEEK_END);
FallocateCall ==
  /\ fa.pc = "idle"
  /\ IF fa.have_posix_fallocate
     THEN \E ok \in BOOLEAN :
            fa' = IF ok /\ fa.seekable
                  THEN [fa EXCEPT !.pc = "done", !.ret = "0",
                                  !.size = IF @ < fa.new_size THEN fa.new_size ELSE @]
                  ELSE [fa EXCEPT !.pc = "done",
                                  !.ret = IF fa.seekable THEN "ENOSPC" ELSE "ESPIPE"]
     ELSE fa' = [fa EXCEPT !.pc = "old_size",
                           !.saved_pos = SeekEnd,
                           !.pos = IF fa.seekable THEN fa.size ELSE @]
  /\ UNCHANGED faFrame

\* off_t old_size = lseek(fd, 0, SEEK_END); and the two early returns.
FallocateOldSize ==
  /\ fa.pc = "old_size"
  /\ LET old_size == SeekEnd IN
       fa' = IF old_size = -1
             THEN [fa EXCEPT !.old_size = old_size, !.pc = "done",
                             !.pos = SeekSet(fa.saved_pos), !.ret = "ESPIPE"]
             ELSE IF old_size >= fa.new_size
             THEN [fa EXCEPT !.old_size = old_size, !.pc = "done",
                             !.pos = SeekSet(fa.saved_pos), !.ret = "0"]
             ELSE [fa EXCEPT !.old_size = old_size, !.pc = "calloc",
                             !.bytes_to_write = fa.new_size - old_size]
  /\ UNCHANGED faFrame

\* void* buf = calloc(bytes_to_write, 1); and the return for no memory.
FallocateCalloc ==
  /\ fa.pc = "calloc"
  /\ \E buf \in BOOLEAN :
       fa' = IF ~buf
             THEN [fa EXCEPT !.pc = "done", !.pos = SeekSet(fa.saved_pos),
                             !.ret = "ENOMEM"]
             ELSE [fa EXCEPT !.pc = "write"]
  /\ UNCHANGED faFrame

\* write_fd(fd, buf, bytes_to_write): all the bytes are written at the
\* position of fd, or only the first of them when the device is full.
FallocateWrite ==
  /\ fa.pc = "write"
  /\ \E written \in 0..fa.bytes_to_write :
       fa' = [fa EXCEPT
                !.pc = "restore",
                !.err = IF written < fa.bytes_to_write THEN "ENOSPC" ELSE "",
                !.pos = @ + written,
                !.size = IF fa.pos + written > @ THEN fa.pos + written ELSE @]
  /\ UNCHANGED faFrame

\* lseek(fd, saved_pos, SEEK_SET); free(buf); return err;
FallocateRestore ==
  /\ fa.pc = "restore"
  /\ fa' = [fa EXCEPT !.pc = "done", !.pos = SeekSet(fa.saved_pos),
                      !.ret = IF fa.err = "" THEN "0" ELSE fa.err]
  /\ UNCHANGED faFrame

NextFallocate ==
  \/ FallocateCall
  \/ FallocateOldSize
  \/ FallocateCalloc
  \/ FallocateWrite
  \/ FallocateRestore

----------------------------------------------------------------------------
(* for_each_level_1_subdir: Util.cpp 286-300                               *)

\* An inner progress is one of 0, 1/InnerSteps, ..., 1, or one step more.
InnerSteps == 2

\* Number of times a subdirectory visit may report inner progress.
MaxInnerReports == 2

\* for (int i = 0; i <= 0xF; i++)
LastSubdir == 15

\* double progress = 1.0 * i / 16;
Subdirs == 16

\* A progress value is held as a multiple of 1/(16 * InnerSteps), in which
\* every value that occurs is exact: 1.0 is ProgressOne.
ProgressOne == Subdirs * InnerSteps

ProgressReversed(i) == ((LastSubdir - i) * ProgressOne) \div Subdirs

\* double progress = 1.0 * i / 16;
Progress(i) == (i * ProgressOne) \div Subdirs

\* progress + inner_progress / 16, inner_progress being x / InnerSteps.
InnerProgress(progress, x) == progress + (x * (ProgressOne \div InnerSteps)) \div Subdirs

HexDigits == <<"0", "1", "2", "3", "4", "5", "6", "7", "8", "9",
               "a", "b", "c", "d", "e", "f">>

\* fmt::format("{:x}", i)
RECURSIVE ToHex(_)
ToHex(i) ==
  IF i < 16 THEN <<HexDigits[i + 1]>>
  ELSE ToHex(i \div 16) \o <<HexDigits[(i % 16) + 1]>>

\* fmt::format("{}/{:x}", cache_dir, i)
SubdirPath(cache_dir, i) == cache_dir \o <<"/">> \o ToHex(i)

StartForEach ==
  \E dir \in {<<"/", "c">>, <<"c", "/", "d">>} :
    fe = [pc |-> "idle", cache_dir |-> dir, i |-> 0, progress |-> 0,
          visited |-> <<>>, inner_count |-> 0, inner_last |-> 0,
          inner_ok |-> TRUE, report |-> <<>>,
          count |-> 0, first |-> 0, last |-> 0,
          monotone |-> TRUE, in_range |-> TRUE]

feFrame == <<fsVars, rpVars, csiVars, rfVars, faVars, mrVars>>

\* progress_receiver(v): what the receiver has seen after it.
Received(v) ==
  [fe EXCEPT !.count = @ + 1,
             !.first = IF fe.count = 0 THEN v ELSE @,
             !.last = v,
             !.monotone = @ /\ (fe.count = 0 \/ v >= fe.last),
             !.in_range = @ /\ v >= 0 /\ v <= ProgressOne]

\* for_each_level_1_subdir(cache_dir, subdir_visitor, progress_receiver)
ForEachCall ==
  /\ fe.pc = "idle"
  /\ fe' = [fe EXCEPT !.pc = "loop", !.i = 0]
  /\ UNCHANGED feFrame

\* The loop body up to the call of subdir_visitor.
ForEachSubdir ==
  /\ fe.pc = "loop"
  /\ fe.i <= LastSubdir
  /\ fe' = [Received(Progress(fe.i)) EXCEPT
              !.pc = "visit",
              !.progress = Progress(fe.i),
              !.visited = Append(@, SubdirPath(fe.cache_dir, fe.i)),
              !.inner_count = 0,
              !.inner_last = 0]
  /\ UNCHANGED feFrame

\* The visitor calls the lambda it was given with an inner progress.
VisitorReports ==
  /\ fe.pc = "visit"
  /\ fe.inner_count < MaxInnerReports
  /\ \E x \in 0..(InnerSteps + 1) :
       LET v == InnerProgress(fe.progress, x) IN
         fe' = [Received(v) EXCEPT
                  !.inner_count = @ + 1,
                  !.inner_last = x,
                  !.inner_ok = @ /\ x >= fe.inner_last /\ x <= InnerSteps,
                  !.report = <<fe.i, x, v>>]
  /\ UNCHANGED feFrame

\* subdir_visitor returns; i++.
VisitorReturns ==
  /\ fe.pc = "visit"
  /\ fe' = [fe EXCEPT !.pc = "loop", !.i = @ + 1]
  /\ UNCHANGED feFrame

\* progress_receiver(1.0) after the loop.
ForEachEnd ==
  /\ fe.pc = "loop"
  /\ fe.i > LastSubdir
  /\ fe' = [Received(ProgressOne) EXCEPT !.pc = "done"]
  /\ UNCHANGED feFrame

NextForEach ==
  \/ ForEachCall
  \/ ForEachSubdir
  \/ VisitorReports
  \/ VisitorReturns
  \/ ForEachEnd

----------------------------------------------------------------------------
(* make_relative_path: Util.cpp 531-584                                    *)

\* Levels of directories below the root.
MaxDirDepth == 2

\* Number of components of the argument path.
MaxPathDepth == 2

DirNames == {<<"a">>, <<"b">>}
LinkName == <<"s">>
DotDot == <<".", ".">>

\* The sequences of at most n components taken from alphabet.
RECURSIVE ComponentSeqs(_, _)
ComponentSeqs(alphabet, n) ==
  IF n = 0 THEN {<<>>}
  ELSE ComponentSeqs(alphabet, n - 1)
         \cup {Append(q, c) : q \in ComponentSeqs(alphabet, n - 1), c \in alphabet}

\* The text of an absolute path with the components q.
RECURSIVE Joined(_)
Joined(q) ==
  IF q = <<>> THEN <<>>
  ELSE Joined(SubSeq(q, 1, Len(q) - 1)) \o <<"/">> \o q[Len(q)]

PathString(q) == IF q = <<>> THEN <<"/">> ELSE Joined(q)

\* The components of a path text: the pieces between its slashes.
RECURSIVE SplitFrom(_, _, _, _)
SplitFrom(str, i, piece, pieces) ==
  IF i > Len(str) THEN Append(pieces, piece)
  ELSE IF str[i] = "/" THEN SplitFrom(str, i + 1, <<>>, Append(pieces, piece))
  ELSE SplitFrom(str, i + 1, Append(piece, str[i]), pieces)

Split(str) == SplitFrom(str, 1, <<>>, <<>>)

\* A directory is known by the names that lead to it from the root; that
\* sequence stands for its (dev, ino). The tree holds directories fs.dirs and,
\* when fs.link.on, the symbolic link /s to the directory fs.link.target.
DirTrees ==
  {d \in SUBSET (ComponentSeqs(DirNames, MaxDirDepth) \ {<<>>}) :
     \A q \in d : Len(q) > 1 => SubSeq(q, 1, Len(q) - 1) \in d}

\* Path resolution by the kernel from directory at over the components from
\* the k-th on: the directory reached, or the place where a name was missing
\* and the components left over from there.
RECURSIVE Walk(_, _, _, _)
Walk(fs, at, comps, k) ==
  IF k > Len(comps) THEN [ok |-> TRUE, at |-> at, rest |-> <<>>]
  ELSE LET c == comps[k] IN
    IF c = <<>> \/ c = <<".">> THEN Walk(fs, at, comps, k + 1)
    ELSE IF c = DotDot
    THEN Walk(fs, SubSeq(at, 1, Len(at) - 1), comps, k + 1)
    ELSE IF at = <<>> /\ c = LinkName /\ fs.link.on
    THEN Walk(fs, fs.link.target, comps, k + 1)
    ELSE IF Append(at, c) \in fs.dirs
    THEN Walk(fs, Append(at, c), comps, k + 1)
    ELSE [ok |-> FALSE, at |-> at,
          rest |-> SelectSeq(SubSeq(comps, k, Len(comps)),
                             LAMBDA x : x # <<>> /\ x # <<".">>)]

\* Resolution of a path text: from the root when it is absolute, else from
\* the working directory.
Resolve(fs, cwd, str) ==
  IF str = <<>> THEN [ok |-> FALSE, at |-> cwd, rest |-> <<>>]
  ELSE Walk(fs, IF str[1] = "/" THEN <<>> ELSE cwd, Split(str), 1)

\* Stat::stat(path): whether the path exists, and its (dev, ino).
Stat(fs, cwd, str) ==
  LET r == Resolve(fs, cwd, str) IN
    IF r.ok THEN [ok |-> TRUE, ino |-> r.at] ELSE [ok |-> FALSE, ino |-> <<>>]

\* bool same_inode_as(const Stat& other)
SameInode(s, t) == s.ok /\ t.ok /\ s.ino = t.ino

\* Util::starts_with(path, prefix)
starts_with(string, prefix) ==
  Len(prefix) <= Len(string) /\ SubSeq(string, 1, Len(prefix)) = prefix

\* get_apparent_cwd: actual_cwd, or a normalized PWD that names the same
\* directory.
ApparentCwds(fs, cwd) ==
  {PathString(q) : q \in {x \in ComponentSeqs(DirNames \cup {LinkName}, MaxDirDepth + 1) :
                            SameInode(Stat(fs, cwd, PathString(x)),
                                      [ok |-> TRUE, ino |-> cwd])}}

BaseDirs == {<<>>, <<"/">>, <<"/", "a">>}

PathArgs ==
  {PathString(q) : q \in ComponentSeqs(DirNames \cup {LinkName, DotDot}, MaxPathDepth)}

StartMakeRel ==
  \E tree_dirs \in DirTrees, base \in BaseDirs, arg \in PathArgs :
    \E cwd \in tree_dirs \cup {<<>>},
       symlink \in {[on |-> FALSE, target |-> <<>>]}
                     \cup {[on |-> TRUE, target |-> t] : t \in tree_dirs} :
      LET fs == [dirs |-> tree_dirs, link |-> symlink] IN
        \E apparent \in ApparentCwds(fs, cwd) :
          mr = [pc |-> "idle", fs |-> fs, cwd |-> cwd,
                actual_cwd |-> PathString(cwd), apparent_cwd |-> apparent,
                base_dir |-> base, original_path |-> arg, path |-> arg,
                path_stat |-> [ok |-> FALSE, ino |-> <<>>],
                path_suffix |-> <<>>, relpath_candidates |-> <<>>,
                tried |-> 0, ret |-> <<>>]

mrFrame == <<fsVars, rpVars, csiVars, rfVars, faVars, feVars>>

\* make_relative_path(ctx, path) is called: the return for an empty base_dir
\* and for a path that does not start with it.
MakeRelCall ==
  /\ mr.pc = "idle"
  /\ mr' = IF mr.base_dir = <<>> \/ ~starts_with(mr.path, mr.base_dir)
           THEN [mr EXCEPT !.pc = "done", !.ret = mr.path]
           ELSE [mr EXCEPT !.pc = "stat"]
  /\ UNCHANGED mrFrame

\* One round of while (!(path_stat = Stat::stat(path))) path = dir_name(path);
\* and, when the path exists, path_suffix = original_path.substr(path.length()).
MakeRelStat ==
  /\ mr.pc = "stat"
  /\ LET st == Stat(mr.fs, mr.cwd, mr.path) IN
       mr' = IF ~st.ok
             THEN [mr EXCEPT !.path = dir_name(mr.path)]
             ELSE [mr EXCEPT !.path_stat = st,
                             !.path_suffix = SubSeq(mr.original_path, Len(mr.path) + 1,
                                                    Len(mr.original_path)),
                             !.pc = "candidates"]
  /\ UNCHANGED mrFrame

\* The two candidates, the shorter one first.
MakeRelCandidates ==
  /\ mr.pc = "candidates"
  /\ LET normalized_path == normalize_absolute_path(mr.path)
         first == get_relative_path(mr.actual_cwd, normalized_path)
         second == get_relative_path(mr.apparent_cwd, normalized_path) IN
       mr' = [mr EXCEPT !.pc = "try",
                        !.relpath_candidates =
                          IF Len(first) > Len(second) THEN <<second, first>>
                          ELSE <<first, second>>]
  /\ UNCHANGED mrFrame

\* One round of for (const auto& relpath : relpath_candidates).
MakeRelTry ==
  /\ mr.pc = "try"
  /\ mr.tried < Len(mr.relpath_candidates)
  /\ LET relpath == mr.relpath_candidates[mr.tried + 1] IN
       mr' = IF SameInode(Stat(mr.fs, mr.cwd, relpath), mr.path_stat)
             THEN [mr EXCEPT !.pc = "done", !.ret = relpath \o mr.path_suffix]
             ELSE [mr EXCEPT !.tried = @ + 1]
  /\ UNCHANGED mrFrame

\* No match: return std::string(original_path);
MakeRelNoMatch ==
  /\ mr.pc = "try"
  /\ mr.tried = Len(mr.relpath_candidates)
  /\ mr' = [mr EXCEPT !.pc = "done", !.ret = mr.original_path]
  /\ UNCHANGED mrFrame

NextMakeRel ==
  \/ MakeRelCall
  \/ MakeRelStat
  \/ MakeRelCandidates
  \/ MakeRelTry
  \/ MakeRelNoMatch

----------------------------------------------------------------------------
(* Specifications *)

ParkedInstall ==
  /\ file_clone = FALSE /\ hard_link = FALSE /\ via_tmp_file = FALSE
  /\ names = <<>> /\ inodes = <<>> /\ inst = <<>> /\ reader = <<>>
  /\ procs = {} /\ dest0 = "absent"

ParkedCreateDir == dirs = <<>> /\ cd = <<>>

ParkedUnlink == unames = <<>> /\ ustale = <<>> /\ ul = <<>>

ParkedTraverse == tree = <<>> /\ tphase = "off" /\ walkers = {} /\ walk = <<>>

ParkedRelPath == rp = <<>>

Parked(running) ==
  /\ "install" \in running \/ ParkedInstall
  /\ "create_dir" \in running \/ ParkedCreateDir
  /\ "unlink_safe" \in running \/ ParkedUnlink
  /\ "traverse" \in running \/ ParkedTraverse
  /\ "get_relative_path" \in running \/ ParkedRelPath
  /\ "strip_ansi_csi_seqs" \in running \/ csi = <<>>
  /\ "read_file" \in running \/ rf = <<>>
  /\ "fallocate" \in running \/ fa = <<>>
  /\ "for_each_level_1_subdir" \in running \/ fe = <<>>
  /\ "make_relative_path" \in running \/ mr = <<>>

Init == InitInstall({1}) /\ Parked({"install"})

Next == NextInstall

\* One process installs source at dest while another may read dest.
Spec == Init /\ [][Next]_vars

InitDouble == InitInstall({1, 2}) /\ Parked({"install"})

\* Two processes install the same source at the same dest.
SpecDouble == InitDouble /\ [][Next]_vars

\* NumCreators processes create the same directory chain.
InitCreateDir == StartCreateDir /\ Parked({"create_dir"})

SpecCreateDir == InitCreateDir /\ [][NextCreateDir]_vars

InitUnlink == StartUnlink /\ Parked({"unlink_safe"})

\* NumUnlinkers processes remove files with unlink_safe.
SpecUnlink == InitUnlink /\ [][NextUnlink]_vars

InitTraverse == StartTree({1}, <<{"traverse"}>>) /\ Parked({"traverse"})

\* One process walks a tree that nothing else changes.
SpecTraverse == InitTraverse /\ [][NextTraverse]_vars

InitWipe ==
  /\ StartTree({1, 2}, <<{"traverse", "wipe_path"}, {"wipe_path"}>>)
  /\ Parked({"traverse"})

\* A process walks or wipes a tree that a second process is wiping.
SpecWipe == InitWipe /\ [][NextTraverse]_vars

InitRelPath == StartRelPath /\ Parked({"get_relative_path"})

\* get_relative_path is applied to a dir and a path that starts with it.
SpecRelPath == InitRelPath /\ [][NextRelPath]_vars

InitStrip == StartStrip /\ Parked({"strip_ansi_csi_seqs"})

\* strip_ansi_csi_seqs is applied to a string.
SpecStrip == InitStrip /\ [][NextStrip]_vars

InitReadFile == StartReadFile /\ Parked({"read_file"})

\* read_file is applied to a file and a size hint.
SpecReadFile == InitReadFile /\ [][NextReadFile]_vars

InitFallocate == StartFallocate /\ Parked({"fallocate"})

\* fallocate is applied to a file descriptor and a new size.
SpecFallocate == InitFallocate /\ [][NextFallocate]_vars

InitForEach == StartForEach /\ Parked({"for_each_level_1_subdir"})

\* for_each_level_1_subdir runs with a visitor that reports inner progress.
SpecForEach == InitForEach /\ [][NextForEach]_vars

InitMakeRel == StartMakeRel /\ Parked({"make_relative_path"})

\* make_relative_path is applied to a path in a directory tree.
SpecMakeRel == InitMakeRel /\ [][NextMakeRel]_vars

----------------------------------------------------------------------------
(* Claims about clone_hard_link_or_copy_file *)

Range(f) == {f[i] : i \in DOMAIN f}

Order(m) == CASE m = "clone" -> 1 [] m = "link" -> 2 [] m = "copy" -> 3

LastAttempt(p) ==
  IF inst[p].attempts = <<>> THEN "none" ELSE inst[p].attempts[Len(inst[p].attempts)]

\* C1: the methods are attempted in the order clone, hard link, copy; clone
\* only when file_clone is set, hard link only when hard_link is set and clone
\* was disabled or failed, copy only when every enabled earlier method failed;
\* the call returns true at the first method that succeeds, with no later
\* method attempted, and returns false only when the copy failed.
C1_FallbackOrder ==
  \A p \in procs :
    LET a == inst[p].attempts
        f == inst[p].failed IN
      /\ \A i, j \in 1..Len(a) : i < j => Order(a[i]) < Order(a[j])
      /\ "clone" \in Range(a) => file_clone
      /\ "link" \in Range(a) => hard_link /\ (file_clone => "clone" \in f)
      /\ "copy" \in Range(a) =>
           (file_clone => "clone" \in f) /\ (hard_link => "link" \in f)
      /\ inst[p].ret = "true" =>
           /\ inst[p].pc = "done"
           /\ a # <<>>
           /\ a[Len(a)] \notin f
           /\ \A i \in 1..(Len(a) - 1) : a[i] \in f
      /\ inst[p].ret = "false" =>
           inst[p].pc = "done" /\ LastAttempt(p) = "copy" /\ "copy" \in f

\* Clone and hard link were both tried and failed, and the copy succeeded.
C1_Witness ==
  \E p \in procs :
    inst[p].ret = "true" /\ inst[p].attempts = <<"clone", "link", "copy">>

\* C2: once install has returned true, with no other process writing, dest
\* exists and holds the bytes of source.
C2_DestEqualsSource ==
  \A p \in procs :
    inst[p].ret = "true" =>
      /\ names["source"] # 0
      /\ names["dest"] # 0
      /\ inodes[names["dest"]].data = inodes[names["source"]].data

\* A direct copy over an older, longer dest returned true after a failed link.
C2_Witness ==
  \E p \in procs :
    /\ inst[p].ret = "true"
    /\ inst[p].attempts = <<"link", "copy">>
    /\ dest0 = "old"
    /\ ~via_tmp_file

ByHardLink(p) == inst[p].ret = "true" /\ LastAttempt(p) = "link"

ReplacesByLinkOrTmpCopy ==
  /\ dest0 = "old"
  /\ ~file_clone
  /\ \A p \in procs : "copy" \in Range(inst[p].attempts) => via_tmp_file

\* C4 as stated: a reader that opens dest at any point of the installation
\* observes the complete old or the complete new content.
C4_AsStated ==
  ReplacesByLinkOrTmpCopy =>
    /\ reader.pc # "enoent"
    /\ reader.pc = "read" => reader.data \in {OldData, SrcData}

\* C4 as amended: a reader that succeeds in opening dest reads the complete
\* old or the complete new content, never a partly written file.
C4_NoTornRead ==
  ReplacesByLinkOrTmpCopy /\ reader.pc = "read" =>
    reader.data \in {OldData, SrcData}

\* The reader read the new content that a copy through a temporary file
\* renamed over the old dest.
C4_Witness ==
  /\ ReplacesByLinkOrTmpCopy
  /\ reader.pc = "read"
  /\ reader.data = SrcData
  /\ \E p \in procs : LastAttempt(p) = "copy" /\ inst[p].ret = "true"

\* C5 as stated: with two installers of the same source at the same dest, the
\* content of source is never modified, and once both calls have returned
\* true dest exists and holds the bytes of source.
C5_DoubleInstallHarmless ==
  /\ names["source"] # 0 /\ inodes[names["source"]].data = SrcData
  /\ (\A p \in procs : inst[p].ret = "true") =>
       names["dest"] # 0 /\ inodes[names["dest"]].data = SrcData

----------------------------------------------------------------------------
(* Claims about create_dir *)

Ancestors(path) == {q \in DirPaths : Len(q) <= Len(path)}

\* C6: when no component of the chain is a regular file, every concurrent
\* create_dir call returns true, whatever the interleaving of the stat and
\* mkdir steps, and the directory asked for and all its ancestors are
\* directories once the call has returned.
C6_ConcurrentCreateDir ==
  (\A q \in DirPaths : dirs[q] # "file") =>
    \A p \in Creators :
      cd[p].ret # "none" =>
        /\ cd[p].ret = "true"
        /\ \A q \in Ancestors(cd[p].arg) : dirs[q] = "dir"

\* Every call has returned true and one of them lost a race: its mkdir found
\* the directory made by another process after its own stat had missed it.
C6_Witness ==
  /\ \A p \in Creators : cd[p].ret = "true"
  /\ \E p \in Creators : cd[p].raced

----------------------------------------------------------------------------
(* Claims about unlink_safe *)

\* C7: once unlink_safe(p) has returned true, neither p nor p.ccache.rm.tmp
\* exists, also when a stale temporary name existed before and when other
\* processes call unlink_safe(p) at the same time; and when no stale temporary
\* name existed, p and p.ccache.rm.tmp never exist at the same time.
C7_UnlinkSafe ==
  /\ \A p \in Unlinkers :
       ul[p].ret = "true" =>
         unames[ul[p].path] = "none" /\ unames[tmp_name(ul[p].path)] = "none"
  /\ \A b \in UBase :
       ~ustale[b] =>
         ~(unames[<<b, "">>] # "none" /\ unames[tmp_name(<<b, "">>)] # "none")

\* A removal returned true where a stale temporary name existed, while another
\* process removing the same file lost the race and returned false.
C7_Witness ==
  \E p, q \in Unlinkers :
    /\ p # q
    /\ ul[p].path = ul[q].path
    /\ ustale[ul[p].path[1]]
    /\ ul[p].ret = "true"
    /\ ul[q].ret = "false"

----------------------------------------------------------------------------
(* Claims about traverse and wipe_path *)

IsProperPrefix(a, b) == Len(a) < Len(b) /\ SubSeq(b, 1, Len(a)) = a

\* C8: a finished traverse of a tree that nothing else changes has visited
\* every existing entry exactly once, directories with is_dir = true and
\* everything else with is_dir = false, each directory after every entry
\* below it, so the root last; a root that is a file is the only visit,
\* (root, false).
C8_PostOrder ==
  \A w \in walkers :
    LET v == walk[w].visits
        existing == {q \in TreePaths : tree[q] # "none"} IN
      /\ walk[w].pc # "error"
      /\ walk[w].pc = "done" =>
           /\ Len(v) = Cardinality(existing)
           /\ \A q \in existing : \E i \in 1..Len(v) : v[i] = <<q, tree[q] = "dir">>
           /\ \A i, j \in 1..Len(v) : IsProperPrefix(v[i][1], v[j][1]) => j < i
           /\ v[Len(v)][1] = TreeRoot
           /\ tree[TreeRoot] = "file" => v = << <<TreeRoot, FALSE>> >>

\* A finished walk of a root that holds a file and a directory with a file
\* in it.
C8_Witness ==
  \E w \in walkers :
    /\ walk[w].pc = "done"
    /\ Len(walk[w].visits) = 4
    /\ \E d \in TreePaths :
         /\ Len(d) = 1
         /\ tree[d] = "dir"
         /\ \E c \in Children(d) : tree[c] = "file"
         /\ \E f \in Children(TreeRoot) : tree[f] = "file"

\* C9 as stated: an entry that another process removes after traverse has
\* read it from its parent directory is skipped silently: traverse and
\* wipe_path, running while another process wipes the same tree, never end
\* with an Error about an entry below the root.
C9_NoErrorOnVanishedEntry ==
  \A w \in walkers :
    walk[w].pc = "error" => walk[w].thrown = <<TreeRoot>>

----------------------------------------------------------------------------
(* Claims about get_relative_path *)

\* C10 as stated: for every absolute dir and every path that starts with dir,
\* the join dir/get_relative_path(dir, path) normalizes to the normalized path.
C10_AsStated ==
  rp.pc = "done" => rp.joined = rp.normalized

\* C10 for the dirs that are normalized, that is, equal to
\* normalize_absolute_path(dir): there the round trip holds.
C10_RelativeRoundTrip ==
  rp.pc = "done" /\ normalize_absolute_path(rp.dir) = rp.dir =>
    rp.joined = rp.normalized

\* dir is a textual prefix of path that ends inside a component, so the
\* relative path climbs with "..".
C10_Witness ==
  /\ rp.pc = "done"
  /\ rp.dir = <<"/", "a", "/", "b">>
  /\ rp.path = <<"/", "a", "/", "b", "a", "/", "b">>
  /\ rp.relative = <<".", ".", "/", "b", "a", "/", "b">>
  /\ rp.joined = <<"/", "a", "/", "b", "a", "/", "b">>

----------------------------------------------------------------------------
(* Claims about strip_ansi_csi_seqs *)

\* The length of the substring of s at offset i that matches
\* ESC '[' (0x30-0x3f)* (0x20-0x2f)* ('K'|'m'), 0 if there is none.
RECURSIVE ClassRun(_, _, _, _)
ClassRun(s, i, lo, hi) ==
  IF i < Len(s) /\ s[i + 1] >= lo /\ s[i + 1] <= hi
  THEN ClassRun(s, i + 1, lo, hi)
  ELSE i

CsiMatchAt(s, i) ==
  IF i + 1 < Len(s) /\ s[i + 1] = 27 /\ s[i + 2] = 91
  THEN LET final == ClassRun(s, ClassRun(s, i + 2, 48, 63), 32, 47) IN
         IF final < Len(s) /\ s[final + 1] \in {75, 109}
         THEN final + 1 - i
         ELSE 0
  ELSE 0

\* s from offset i on without its substrings that match the grammar.
RECURSIVE WithoutCsi(_, _)
WithoutCsi(s, i) ==
  IF i >= Len(s) THEN <<>>
  ELSE IF CsiMatchAt(s, i) > 0 THEN WithoutCsi(s, i + CsiMatchAt(s, i))
  ELSE <<s[i + 1]>> \o WithoutCsi(s, i + 1)

\* C11: strip_ansi_csi_seqs(s) is s without every substring that matches the
\* CSI grammar, wherever it occurs, every other byte kept in order.
C11_AsStated ==
  csi.pc = "done" => csi.result = WithoutCsi(csi.string, 0)

\* C11 for the strings in which every ESC starts a complete sequence: there
\* the result is s without its sequences.
C11_StripsWhenEveryEscStarts ==
  csi.pc = "done"
    /\ (\A i \in 0..(Len(csi.string) - 1) :
          csi.string[i + 1] = 27 => CsiMatchAt(csi.string, i) > 0)
  => csi.result = WithoutCsi(csi.string, 0)

----------------------------------------------------------------------------
(* Claims about read_file *)

\* C12: read_file returns the entire content of the file for every size hint,
\* also when reads were interrupted with EINTR.
C12_AsStated ==
  rf.pc = "done" => rf.out = rf.content

\* C12 for the calls whose first buffer, of 1024 or size_hint + 1 bytes, is
\* not smaller than the file, and for a zero hint: there the entire content
\* is returned.
C12_WholeFileWhenBufferFits ==
  rf.pc = "done"
    /\ (rf.size_hint = 0 \/ Len(rf.content) <= BufferSize(rf.size_hint))
  => rf.out = rf.content

----------------------------------------------------------------------------
(* Claims about fallocate *)

\* C13: fallocate leaves the file position of fd where it was before the
\* call, on every exit path and for any starting position.
C13_AsStated ==
  fa.pc = "done" => fa.pos = fa.pos0

\* C13 for the builds with posix_fallocate and for the calls made with the
\* position at the end of the file: there the position is kept.
C13_PositionKeptAtEnd ==
  fa.pc = "done" /\ (fa.have_posix_fallocate \/ fa.pos0 = fa.size0)
  => fa.pos = fa.pos0

----------------------------------------------------------------------------
(* Claims about for_each_level_1_subdir *)

Level1Names == <<"0", "1", "2", "3", "4", "5", "6", "7", "8", "9",
                 "a", "b", "c", "d", "e", "f">>

\* C14: the subdirectory visitor is called exactly 16 times, for <root>/0 to
\* <root>/f in that order; the values passed to the progress receiver start at
\* 0, end at 1 and, when every visit reports non-decreasing inner progress
\* within [0,1], never decrease and stay within [0,1]; the inner progress x of
\* subdirectory i is passed on as (i + x)/16.
C14_SubdirsAndProgress ==
  /\ Len(fe.visited) <= 16
  /\ \A k \in 1..Len(fe.visited) :
       fe.visited[k] = fe.cache_dir \o <<"/", Level1Names[k]>>
  /\ fe.pc = "done" => Len(fe.visited) = 16 /\ fe.last = 16 * InnerSteps
  /\ fe.count > 0 => fe.first = 0
  /\ fe.inner_ok => fe.monotone /\ fe.in_range
  /\ fe.report # <<>> =>
       fe.report[3] = fe.report[1] * InnerSteps + fe.report[2]

\* The call has returned after visits that reported inner progress, each time
\* within the rules.
C14_Witness ==
  /\ fe.pc = "done"
  /\ fe.inner_ok
  /\ fe.count > 18
  /\ fe.report = <<15, InnerSteps, 16 * InnerSteps>>

----------------------------------------------------------------------------
(* Claims about make_relative_path *)

\* The location a path text designates from the actual cwd: the deepest
\* directory its components lead to, and the names left over below it.
Location(str) ==
  LET r == Resolve(mr.fs, mr.cwd, str) IN [at |-> r.at, rest |-> r.rest]

\* C15: make_relative_path returns the path unchanged or a relative path that
\* designates, from the actual cwd, the same location as the path, also when
\* the nearest existing ancestor of the path is "/"; it returns the path
\* unchanged when base_dir is empty or the path does not start with it.
C15_AsStated ==
  mr.pc = "done" =>
    /\ mr.ret = mr.original_path
         \/ (mr.ret[1] # "/" /\ Location(mr.ret) = Location(mr.original_path))
    /\ mr.base_dir = <<>> \/ ~starts_with(mr.original_path, mr.base_dir)
         => mr.ret = mr.original_path

\* C15 for the paths that exist or whose nearest existing ancestor is not
\* "/": there the result is the path or designates the same location.
C15_SameLocationBelowRoot ==
  mr.pc = "done" /\ (mr.path # <<"/">> \/ mr.path_suffix = <<>>) =>
    /\ mr.ret = mr.original_path
         \/ (mr.ret[1] # "/" /\ Location(mr.ret) = Location(mr.original_path))
    /\ mr.base_dir = <<>> \/ ~starts_with(mr.original_path, mr.base_dir)
         => mr.ret = mr.original_path

====
